---- MODULE Spec2Model ----
(***************************************************************************)
(* Signaling and room-membership coordinator of the VideoCall server       *)
(* (server/server.js): the Room Store `rooms`, the Connection Registry     *)
(* `users`, the socket.io channels the handlers subscribe sockets to, and  *)
(* one action per socket event handler.  Node runs every handler to        *)
(* completion, so a handler is one atomic step.  The clients (HomeScreen,  *)
(* VideoCall) are modelled by the screen they show, the participants list  *)
(* they hold and the events emitted to them that they have not handled.    *)
(***************************************************************************)
EXTENDS Integers, Sequences, FiniteSets, TLC

\* ------------------------------------------------------------------ bounds
\* Connections the transport accepts in a run of Spec.
MaxConns == 3
\* Client events (everything but 'connection') the server handles in a run of Spec.
MaxEvents == 5
\* Client events the server handles in a run of SpecRelay.
MaxRelayEvents == 3
\* Client events the server handles in a run of SpecNames.
MaxNameEvents == 3
\* Client events the server handles in a run of SpecClient.
MaxClientEvents == 3
\* Connections beyond the capacity of one room that SpecFull accepts.
MaxExtra == 1
\* Remote users the lone client of SpecPeer hears of.
MaxPeers == 1
\* Users that join the room of the client of SpecMedia.
MaxMediaUsers == 2
\* Client events the server handles in a run of SpecAnswer.
MaxAnswerEvents == 2
\* Connections, events handled by the server, and VideoCall mounts per socket
\* in a run of SpecCall.
MaxCallConns == 2
MaxCallEvents == 4
MaxMounts == 2
\* Client events the server handles in a run of SpecVoice.
MaxVoiceEvents == 2
\* Requests the server handles in a run of SpecHome, and the blanks a user
\* types before and after a word.
MaxHomeEvents == 2
MaxPad == 1

\* ------------------------------------------------------- program constants
\* server.js:70  `room.users.size >= 4`
MAX_ROOM_SIZE == 4

\* ------------------------------------------------------------ input values
\* socket.id values; the transport hands them out fresh, in connection order.
SocketIds == 1..(MAX_ROOM_SIZE + MaxExtra)
\* Values generateRoomCode() can return, and room codes a client can send.
Codes == {"AAAAAA", "BBBBBB"}
\* userData.name / data.name as sent by a client; the server never checks it.
Names == {"", "Alice"}
\* data.offer / data.answer / data.candidate / data.audio: opaque to the server.
Payloads == {"p1", "p2"}
\* data.language of translation-audio.
Languages == {"es"}
\* The three relayed signaling events and the field each is tagged with.
RelayEvents == {"offer", "answer", "ice-candidate"}
\* data.target of a relayed event: any string a client sends. It names a
\* socket.io channel, so it is either a socket id or a room code. NoTarget is
\* the target recorded for the events that carry none.
NoTarget == [socket |-> 0, room |-> ""]
\* VoiceTranslation before any utterance was recognized.
NoUtterance == [stage |-> "idle", language |-> "en"]

\* HomeScreen's state when it mounts (useState('') three times), with no
\* request emitted yet.
NewForm == [name |-> << >>, roomCode |-> << >>, error |-> "", reqs |-> << >>]

Targets ==
    {[socket |-> d, room |-> ""] : d \in SocketIds}
        \cup {[socket |-> 0, room |-> k] : k \in Codes}

\* --------------------------------------------------------------- the state
VARIABLES
    status,     \* socket lifecycle per id: "none" | "open" | "closed"
    rooms,      \* Map roomCode -> room  (a function whose DOMAIN is the live codes)
    users,      \* Map socket.id -> {roomCode, name}
    channels,   \* socket.io adapter: room code -> sockets subscribed by socket.join
    last,       \* the event the latest handler run handled, with the registry
                \* entry (room code, "" for none) its connection had before
    out,        \* the emit calls of the latest handler run, in program order
    handled,    \* number of client events handled so far (Spec stops at MaxEvents)
    screen,     \* client: App.currentScreen per socket, "home" | "call"
    loading,    \* client: HomeScreen.loading per socket
    participants, \* client: VideoCall.participants per socket
    inbox,      \* events emitted to a socket that its client has not handled yet
    mgr,        \* client: the WebRTCManager objects a socket's VideoCall mounts
                \* have created, oldest first; the last one is the current one
    voice,      \* client: VoiceTranslation's pipeline per socket
    home        \* client: HomeScreen's form per socket (name, roomCode, error)
                \* and the requests it has emitted on the socket, oldest first

\* The state of the clients.
cvars == <<screen, loading, participants, inbox>>

\* The WebRTC managers, the voice translation and the forms of the clients.
mvars == <<mgr, voice, home>>

vars == <<status, rooms, users, channels, last, out, handled, cvars, mvars>>

\* ------------------------------------------------------ JavaScript Map ops
MapHas(m, k) == k \in DOMAIN m

MapSet(m, k, v) == [x \in (DOMAIN m) \cup {k} |-> IF x = k THEN v ELSE m[x]]

MapDelete(m, k) == [x \in (DOMAIN m) \ {k} |-> m[x]]

\* room.users is a Map keyed by socket.id; it is modelled as the sequence of
\* its values in insertion order (what Array.from(room.users.values()) gives).
UserIds(us) == {us[i].id : i \in 1..Len(us)}

UsersHas(us, id) == id \in UserIds(us)

\* Map.prototype.set: an existing key keeps its position and gets the new
\* value, a new key is appended.
UsersSet(us, id, rec) ==
    IF UsersHas(us, id)
    THEN [i \in 1..Len(us) |-> IF us[i].id = id THEN rec ELSE us[i]]
    ELSE Append(us, rec)

\* Map.prototype.delete
UsersDelete(us, id) == SelectSeq(us, LAMBDA u : u.id # id)

\* room.users.size
UsersSize(us) == Len(us)

\* ---------------------------------------------------------------- emitting
\* socket.emit(ev, body): to the socket itself.
EmitSelf(c, ev, body) == [ev |-> ev, to |-> {c}, body |-> body]

\* socket.to(roomCode).emit(ev, body): to every socket subscribed to the
\* channel, the sender excepted.  `subs` is the channel's subscriber set.
EmitRoom(c, subs, ev, body) == [ev |-> ev, to |-> subs \ {c}, body |-> body]

\* The sockets subscribed to the channel a relay target names: every socket is
\* subscribed to the channel named by its own id for as long as it is
\* connected, and to the room codes it has joined.
Subscribers(target) ==
    IF target.room \in Codes
    THEN channels[target.room]
    ELSE {t \in SocketIds : t = target.socket /\ status[t] = "open"}

\* socket.to(target).emit(ev, body)
EmitTarget(c, target, ev, body) ==
    [ev |-> ev, to |-> Subscribers(target) \ {c}, body |-> body]

\* -------------------------------------------------------------------- Init
\* server.js:19-20: both maps start empty; no socket is connected yet.
Init ==
    /\ status = [c \in SocketIds |-> "none"]
    /\ rooms = << >>
    /\ users = << >>
    /\ channels = [k \in Codes |-> {}]
    /\ last = [ev |-> "start", conn |-> 0, open |-> FALSE, target |-> NoTarget,
               room |-> ""]
    /\ out = << >>
    /\ handled = 0
    /\ screen = [c \in SocketIds |-> "home"]
    /\ loading = [c \in SocketIds |-> FALSE]
    /\ participants = [c \in SocketIds |-> << >>]
    /\ inbox = [c \in SocketIds |-> << >>]
    /\ mgr = [c \in SocketIds |-> << >>]
    /\ voice = [c \in SocketIds |-> NoUtterance]
    /\ home = [c \in SocketIds |-> NewForm]

\* What `last` records of a handler run: the event, the socket, and whether
\* the socket was connected when the handler ran.
Handling(ev, c) ==
    [ev |-> ev, conn |-> c, open |-> status[c] = "open", target |-> NoTarget,
     room |-> IF MapHas(users, c) THEN users[c].roomCode ELSE ""]

\* io.on('connection'): the transport accepts a socket under the next fresh
\* id; at most `limit` sockets are accepted.
Connect(limit) ==
    \E c \in SocketIds :
        /\ c <= limit
        /\ status[c] = "none"
        /\ \A d \in SocketIds : d < c => status[d] # "none"
        /\ status' = [status EXCEPT ![c] = "open"]
        /\ last' = [ev |-> "connection", conn |-> c, open |-> FALSE,
                    target |-> NoTarget, room |-> ""]
        /\ out' = << >>
        /\ UNCHANGED <<rooms, users, channels>>

\* The participant record create-room stores for the creator.
HostUserPlain(c, name) == [id |-> c, name |-> name, isHost |-> FALSE]

HostUser(c, name) == [id |-> c, name |-> name, isHost |-> TRUE]

\* socket.on('create-room'); `code` is the value generateRoomCode() returned,
\* which nothing compares with the codes of the live rooms.
CreateRoom(c, name, code) ==
    /\ status[c] = "open"
    /\ LET room == [code |-> code, host |-> c, users |-> <<HostUser(c, name)>>]
       IN /\ rooms' = MapSet(rooms, code, room)
          /\ users' = MapSet(users, c, [roomCode |-> code, name |-> name])
          /\ channels' = [channels EXCEPT ![code] = @ \cup {c}]
          /\ out' = << EmitSelf(c, "room-created",
                         [roomCode |-> code, isHost |-> TRUE, users |-> room.users]) >>
    /\ last' = Handling("create-room", c)
    /\ UNCHANGED status

\* The capacity test of join-room.
RoomIsFullOffByOne(room) == UsersSize(room.users) > MAX_ROOM_SIZE

RoomIsFull(room) == UsersSize(room.users) >= MAX_ROOM_SIZE

\* The participant record join-room stores for the joiner.
JoinedUserAsHost(c, name) == [id |-> c, name |-> name, isHost |-> TRUE]

JoinedUser(c, name) == [id |-> c, name |-> name, isHost |-> FALSE]

\* join-room, room not found: one error to the requester, then return.
JoinNotFoundBindsFirst(c, code, name) ==
    /\ out' = << EmitSelf(c, "error", [message |-> "Room not found"]) >>
    /\ users' = MapSet(users, c, [roomCode |-> code, name |-> name])
    /\ UNCHANGED <<rooms, channels>>

JoinNotFound(c, code, name) ==
    /\ out' = << EmitSelf(c, "error", [message |-> "Room not found"]) >>
    /\ UNCHANGED <<rooms, users, channels>>

\* join-room, room at capacity: one error to the requester, then return.
JoinFullTellsRoom(c, code, name) ==
    /\ out' = << EmitRoom(c, channels[code], "error", [message |-> "Room is full"]),
                 EmitSelf(c, "error", [message |-> "Room is full"]) >>
    /\ UNCHANGED <<rooms, users, channels>>

JoinFull(c, code, name) ==
    /\ out' = << EmitSelf(c, "error", [message |-> "Room is full"]) >>
    /\ UNCHANGED <<rooms, users, channels>>

\* join-room, success: insert, bind, subscribe, tell the others, tell the joiner.
JoinOk(c, code, name) ==
    LET userList == UsersSet(rooms[code].users, c, JoinedUser(c, name))
    IN /\ rooms' = [rooms EXCEPT ![code].users = userList]
       /\ users' = MapSet(users, c, [roomCode |-> code, name |-> name])
       /\ channels' = [channels EXCEPT ![code] = @ \cup {c}]
       /\ out' = << EmitRoom(c, channels'[code], "user-joined",
                      [user |-> [id |-> c, name |-> name], users |-> userList]),
                    EmitSelf(c, "room-joined",
                      [roomCode |-> code, users |-> userList, isHost |-> FALSE]) >>

\* socket.on('join-room')
JoinRoom(c, code, name) ==
    /\ status[c] = "open"
    /\ last' = Handling("join-room", c)
    /\ UNCHANGED status
    /\ IF ~MapHas(rooms, code) THEN JoinNotFound(c, code, name)
       ELSE IF RoomIsFull(rooms[code]) THEN JoinFull(c, code, name)
       ELSE JoinOk(c, code, name)

\* The field a relayed event carries its payload in, and the field that tags
\* it with the sender.
RelayBody(ev, payload, c) ==
    CASE ev = "offer"  -> [offer |-> payload, caller |-> c]
      [] ev = "answer" -> [answer |-> payload, answerer |-> c]
      [] OTHER         -> [candidate |-> payload, sender |-> c]

\* socket.on('offer'), socket.on('answer'), socket.on('ice-candidate')
Relay(c, ev, target, payload) ==
    /\ status[c] = "open"
    /\ last' = [Handling(ev, c) EXCEPT !.target = target]
    /\ out' = << EmitTarget(c, target, ev, RelayBody(ev, payload, c)) >>
    /\ UNCHANGED <<status, rooms, users, channels>>

\* socket.on('translation-audio')
TranslationAudio(c, audio, language) ==
    /\ status[c] = "open"
    /\ last' = Handling("translation-audio", c)
    /\ out' = IF MapHas(users, c)
              THEN << EmitRoom(c, channels[users[c].roomCode], "translation-audio",
                        [audio |-> audio, language |-> language, sender |-> c]) >>
              ELSE << >>
    /\ UNCHANGED <<status, rooms, users, channels>>

\* disconnect: room.users.delete(socket.id)
UsersAfterLeavePromote(us, c) ==
    LET left == UsersDelete(us, c)
    IN IF Len(left) > 0 /\ \E i \in 1..Len(us) : us[i].id = c /\ us[i].isHost
       THEN [left EXCEPT ![1].isHost = TRUE]
       ELSE left

UsersAfterLeave(us, c) == UsersDelete(us, c)

\* disconnect: the Room Store once the member is removed; an empty room is
\* deleted.
RoomsAfterLeaveKeepEmpty(rs, code, left) == [rs EXCEPT ![code].users = left]

RoomsAfterLeave(rs, code, left) ==
    IF UsersSize(left) = 0
    THEN MapDelete(rs, code)
    ELSE [rs EXCEPT ![code].users = left]

\* disconnect: users.delete(socket.id)
RegistryAfterLeaveKeep(us, c) == us

RegistryAfterLeave(us, c) == MapDelete(us, c)

\* socket.on('disconnect').  socket.io takes the socket out of every channel
\* before it runs the listener.  The listener can be run again for a socket
\* that is already closed (a double fire).
Disconnect(c) ==
    /\ status[c] \in {"open", "closed"}
    /\ status' = [status EXCEPT ![c] = "closed"]
    /\ channels' = [k \in Codes |-> channels[k] \ {c}]
    /\ last' = Handling("disconnect", c)
    /\ IF MapHas(users, c)
       THEN LET code == users[c].roomCode
            IN /\ users' = RegistryAfterLeave(users, c)
               /\ IF MapHas(rooms, code)
                  THEN LET left == UsersAfterLeave(rooms[code].users, c)
                       IN /\ out' = << EmitRoom(c, channels'[code], "user-left",
                                          [userId |-> c, users |-> left]) >>
                          /\ rooms' = RoomsAfterLeave(rooms, code, left)
                  ELSE /\ out' = << >>
                       /\ UNCHANGED rooms
       ELSE /\ out' = << >>
            /\ UNCHANGED <<rooms, users>>

\* ----------------------------------------------------------- specifications
\* One more client event is handled, within a budget of `limit` events.
CountTo(limit) == handled < limit /\ handled' = handled + 1

Count == CountTo(MaxEvents)

\* The server-only specifications leave the clients out: their state stays
\* as it starts.
Quiet == UNCHANGED <<cvars, mvars>>

\* The one display name the lifecycle specifications send: no handler ever
\* reads a name, it is only stored and passed on.
OneName == {"Alice"}

Next ==
    \/ Connect(MaxConns) /\ UNCHANGED handled /\ Quiet
    \/ \E c \in SocketIds, name \in OneName, code \in Codes :
          Count /\ CreateRoom(c, name, code) /\ Quiet
    \/ \E c \in SocketIds, code \in Codes, name \in OneName :
          Count /\ JoinRoom(c, code, name) /\ Quiet
    \/ \E c \in SocketIds : Count /\ Disconnect(c) /\ Quiet

\* The room lifecycle: connection, create-room, join-room and disconnect from
\* every connection, with both codes, in a bounded run.
Spec == Init /\ [][Next]_vars

CountRelay == CountTo(MaxRelayEvents)

NextRelay ==
    \/ Connect(MaxConns) /\ UNCHANGED handled /\ Quiet
    \/ \E c \in SocketIds, name \in OneName, code \in Codes :
          CountRelay /\ CreateRoom(c, name, code) /\ Quiet
    \/ \E c \in SocketIds, code \in Codes, name \in OneName :
          CountRelay /\ JoinRoom(c, code, name) /\ Quiet
    \/ \E c \in SocketIds, ev \in RelayEvents, target \in Targets, payload \in Payloads :
          CountRelay /\ Relay(c, ev, target, payload) /\ Quiet
    \/ \E c \in SocketIds, audio \in Payloads, language \in Languages :
          CountRelay /\ TranslationAudio(c, audio, language) /\ Quiet
    \/ \E c \in SocketIds : CountRelay /\ Disconnect(c) /\ Quiet

\* The lifecycle and the relayed events together, in a shorter bounded run.
SpecRelay == Init /\ [][NextRelay]_vars

CountNames == CountTo(MaxNameEvents)

NextNames ==
    \/ Connect(MaxConns) /\ UNCHANGED handled /\ Quiet
    \/ \E c \in SocketIds, name \in Names, code \in Codes :
          CountNames /\ CreateRoom(c, name, code) /\ Quiet
    \/ \E c \in SocketIds, code \in Codes, name \in Names :
          CountNames /\ JoinRoom(c, code, name) /\ Quiet
    \/ \E c \in SocketIds : CountNames /\ Disconnect(c) /\ Quiet

\* The room lifecycle with every name a client can send, the empty one
\* included, in a shorter bounded run.
SpecNames == Init /\ [][NextNames]_vars

\* The one room code of SpecFull, so that a room can fill up.
FullCodes == {"AAAAAA"}

\* Room lifecycle events only, from one connection more than a room can
\* hold, in runs of any length.
NextFull ==
    \/ Connect(MAX_ROOM_SIZE + MaxExtra) /\ UNCHANGED handled /\ Quiet
    \/ \E c \in SocketIds, name \in OneName, code \in FullCodes :
          CreateRoom(c, name, code) /\ UNCHANGED handled /\ Quiet
    \/ \E c \in SocketIds, code \in FullCodes, name \in OneName :
          JoinRoom(c, code, name) /\ UNCHANGED handled /\ Quiet
    \/ \E c \in SocketIds : Disconnect(c) /\ UNCHANGED handled /\ Quiet

SpecFull == Init /\ [][NextFull]_vars

\* ------------------------------------------------------------- the clients
\* The emissions of the latest handler run that go to socket `d`, in order.
EmittedTo(d, o) == SelectSeq(o, LAMBDA e : d \in e.to)

\* The transport queues every emission for its recipients; what was queued
\* for a socket that is closed by now is lost.
Post ==
    inbox' = [d \in SocketIds |->
                 IF status'[d] = "open" THEN inbox[d] \o EmittedTo(d, out') ELSE << >>]

\* HomeScreen.handleCreateRoom: needs a non-empty name, a connected socket and
\* an enabled button (not loading); sets loading and emits create-room, which
\* the server handles.
ClientCreate(c, name, code) ==
    /\ screen[c] = "home"
    /\ ~loading[c]
    /\ name # ""
    /\ CreateRoom(c, name, code)
    /\ loading' = [loading EXCEPT ![c] = TRUE]
    /\ Post
    /\ UNCHANGED <<screen, participants>>

\* HomeScreen.handleJoinRoom: as handleCreateRoom, with a non-empty room code.
ClientJoin(c, code, name) ==
    /\ screen[c] = "home"
    /\ ~loading[c]
    /\ name # ""
    /\ JoinRoom(c, code, name)
    /\ loading' = [loading EXCEPT ![c] = TRUE]
    /\ Post
    /\ UNCHANGED <<screen, participants>>

\* The transport closes a socket (tab closed, network lost) and the server
\* runs its disconnect handler.
ClientDisconnect(c) ==
    /\ status[c] = "open"
    /\ Disconnect(c)
    /\ Post
    /\ UNCHANGED <<screen, loading, participants>>

\* HomeScreen's listeners (room-created, room-joined, error).  onJoinCall
\* switches App to the call screen: HomeScreen unmounts, taking its listeners
\* off, and a fresh VideoCall mounts with an empty participants list and only
\* then registers its own listeners.
HomeHandlesIgnoresError(c, e) ==
    IF e.ev \in {"room-created", "room-joined"}
    THEN /\ loading' = [loading EXCEPT ![c] = FALSE]
         /\ screen' = [screen EXCEPT ![c] = "call"]
         /\ participants' = [participants EXCEPT ![c] = << >>]
    ELSE UNCHANGED <<screen, loading, participants>>

HomeHandles(c, e) ==
    IF e.ev \in {"room-created", "room-joined"}
    THEN /\ loading' = [loading EXCEPT ![c] = FALSE]
         /\ screen' = [screen EXCEPT ![c] = "call"]
         /\ participants' = [participants EXCEPT ![c] = << >>]
    ELSE IF e.ev = "error"
    THEN /\ loading' = [loading EXCEPT ![c] = FALSE]
         /\ UNCHANGED <<screen, participants>>
    ELSE UNCHANGED <<screen, loading, participants>>

\* VideoCall's listeners: room-created, room-joined, user-joined and user-left
\* all do setParticipants(data.users).
CallHandles(c, e) ==
    IF e.ev \in {"room-created", "room-joined", "user-joined", "user-left"}
    THEN /\ participants' = [participants EXCEPT ![c] = e.body.users]
         /\ UNCHANGED <<screen, loading>>
    ELSE UNCHANGED <<screen, loading, participants>>

\* The client of socket `c` handles the oldest event emitted to it, with the
\* listeners of the screen it shows.
Deliver(c) ==
    /\ status[c] = "open"
    /\ inbox[c] # << >>
    /\ inbox' = [inbox EXCEPT ![c] = Tail(@)]
    /\ IF screen[c] = "home"
       THEN HomeHandles(c, Head(inbox[c]))
       ELSE CallHandles(c, Head(inbox[c]))
    /\ UNCHANGED <<status, rooms, users, channels, last, out, handled>>

\* VideoCall.handleEndCall and App.handleEndCall: the WebRTC manager is
\* cleaned up and App goes back to the home screen; nothing is emitted on the
\* socket and the socket stays connected.
EndCall(c) ==
    /\ status[c] = "open"
    /\ screen[c] = "call"
    /\ screen' = [screen EXCEPT ![c] = "home"]
    /\ loading' = [loading EXCEPT ![c] = FALSE]
    /\ participants' = [participants EXCEPT ![c] = << >>]
    /\ UNCHANGED <<status, rooms, users, channels, last, out, handled, inbox>>

CountClient == CountTo(MaxClientEvents)

NextClient ==
    \/ Connect(MaxConns) /\ UNCHANGED handled /\ Quiet
    \/ \E c \in SocketIds, name \in OneName, code \in Codes :
          CountClient /\ ClientCreate(c, name, code) /\ UNCHANGED mvars
    \/ \E c \in SocketIds, code \in Codes, name \in OneName :
          CountClient /\ ClientJoin(c, code, name) /\ UNCHANGED mvars
    \/ \E c \in SocketIds : CountClient /\ ClientDisconnect(c) /\ UNCHANGED mvars
    \/ \E c \in SocketIds : Deliver(c) /\ UNCHANGED mvars
    \/ \E c \in SocketIds : EndCall(c) /\ UNCHANGED mvars

\* The server driven by the shipped clients, with the events it emits
\* delivered to them one by one, in a bounded run.
SpecClient == Init /\ [][NextClient]_vars

CountAnswer == CountTo(MaxAnswerEvents)

NextAnswer ==
    \/ Connect(MaxConns) /\ UNCHANGED handled /\ Quiet
    \/ \E c \in SocketIds, name \in OneName, code \in FullCodes :
          CountAnswer /\ ClientCreate(c, name, code) /\ UNCHANGED mvars
    \/ \E c \in SocketIds, code \in FullCodes, name \in OneName :
          CountAnswer /\ ClientJoin(c, code, name) /\ UNCHANGED mvars
    \/ \E c \in SocketIds : CountAnswer /\ ClientDisconnect(c) /\ UNCHANGED mvars
    \/ \E c \in SocketIds : Deliver(c) /\ UNCHANGED mvars
    \/ \E c \in SocketIds : EndCall(c) /\ UNCHANGED mvars

\* The shipped clients and the server with one room code: the client of a
\* connected socket handles, sooner or later, every event emitted to it.
SpecAnswer ==
    /\ Init
    /\ [][NextAnswer]_vars
    /\ \A c \in SocketIds : WF_vars(Deliver(c) /\ UNCHANGED mvars)

\* ----------------------------------------------------- the WebRTC manager
\* new WebRTCManager(socket): no local stream, no peers.  `media` tells whether
\* the getUserMedia call of initializeMedia is still in flight, `timers` holds
\* the setTimeout callbacks not yet run, `left` remembers the users whose
\* user-left this manager's listeners have handled, and `log` the messages
\* createPeerConnection has written when it returned early.
NewManager ==
    [stream |-> "null", media |-> "pending", peers |-> << >>, timers |-> {},
     left |-> {}, log |-> {}]

\* new Peer({initiator, ...}) as stored by peers.set: `failed` once it has
\* emitted 'error', `offered` once a remote offer was signalled into it,
\* `sent` once its 'signal' listener has emitted its offer or answer.
NewPeer(initiator) ==
    [initiator |-> initiator, failed |-> FALSE, offered |-> FALSE, sent |-> FALSE]

\* setTimeout(() => manager.createPeerConnection(id, true), 1000)
CreateTimer(userId) ==
    [kind |-> "create", user |-> userId, initiator |-> TRUE, removed |-> FALSE]

\* setTimeout(() => { if (this.peers.has(userId)) ... }, 2000) of
\* peer.on('error'); `removed` remembers that the user's entry was deleted
\* from the peers map after the error.
RetryTimer(userId, initiator) ==
    [kind |-> "retry", user |-> userId, initiator |-> initiator, removed |-> FALSE]

\* The pending retry timers of `userId` learn that its entry was deleted.
MarkRemoved(timers, userId) ==
    {IF t.kind = "retry" /\ t.user = userId THEN [t EXCEPT !.removed = TRUE] ELSE t
        : t \in timers}

\* WebRTCManager.createPeerConnection(userId, initiator)
CreatePeerConnectionOverwrite(m, userId, initiator) ==
    IF m.stream = "null"
    THEN [m EXCEPT !.log = @ \cup {"No local stream available"}]
    ELSE [m EXCEPT !.peers = MapSet(@, userId, NewPeer(initiator))]

CreatePeerConnection(m, userId, initiator) ==
    IF MapHas(m.peers, userId)
    THEN [m EXCEPT !.log = @ \cup {"Peer connection already exists"}]
    ELSE IF m.stream = "null"
    THEN [m EXCEPT !.log = @ \cup {"No local stream available"}]
    ELSE [m EXCEPT !.peers = MapSet(@, userId, NewPeer(initiator))]

\* WebRTCManager.handleOffer(offer, callerId)
HandleOffer(m, callerId) ==
    LET made == CreatePeerConnection(m, callerId, FALSE)
    IN IF MapHas(made.peers, callerId)
       THEN [made EXCEPT !.peers[callerId].offered = TRUE]
       ELSE made

\* WebRTCManager.removePeerConnection(userId)
RemovePeerConnection(m, userId) ==
    IF MapHas(m.peers, userId)
    THEN [m EXCEPT !.peers = MapDelete(@, userId),
                   !.timers = MarkRemoved(@, userId)]
    ELSE m

\* WebRTCManager.cleanup(): the stream is stopped and dropped, every peer is
\* destroyed and the map cleared.  Pending timers are not cancelled.
Cleanup(m) ==
    [m EXCEPT !.stream = "null",
              !.peers = << >>,
              !.timers = {IF t.kind = "retry" /\ MapHas(m.peers, t.user)
                          THEN [t EXCEPT !.removed = TRUE] ELSE t : t \in @}]

\* VideoCall's socket.on('user-joined'): a creation timer for the new user.
OnUserJoined(m, self, userId) ==
    IF userId # self
    THEN [m EXCEPT !.timers = @ \cup {CreateTimer(userId)}]
    ELSE m

\* VideoCall's socket.on('room-joined'): a creation timer for every listed
\* user but oneself.
OnRoomJoined(m, self, list) ==
    [m EXCEPT !.timers = @ \cup {CreateTimer(u) : u \in UserIds(list) \ {self}}]

\* VideoCall's socket.on('user-left')
OnUserLeft(m, userId) ==
    [RemovePeerConnection(m, userId) EXCEPT !.left = @ \cup {userId}]

\* peer.on('error'): the retry timer is started; the entry stays in the map.
OnPeerError(m, userId) ==
    [m EXCEPT !.peers[userId].failed = TRUE,
              !.timers = @ \cup {RetryTimer(userId, m.peers[userId].initiator)}]

\* peer.on('close'): this.peers.delete(userId)
OnPeerClose(m, userId) ==
    [m EXCEPT !.peers = MapDelete(@, userId), !.timers = MarkRemoved(@, userId)]

\* A timer callback runs: the creation timer calls createPeerConnection, the
\* retry timer replaces the entry if the map still has one for the user.
OnTimer(m, t) ==
    LET rest == [m EXCEPT !.timers = @ \ {t}]
    IN IF t.kind = "create"
       THEN CreatePeerConnection(rest, t.user, TRUE)
       ELSE IF MapHas(rest.peers, t.user)
       THEN CreatePeerConnection(
                [rest EXCEPT !.peers = MapDelete(@, t.user)], t.user, t.initiator)
       ELSE rest

\* The manager the mounted VideoCall of socket `c` uses.
Current(c) == mgr[c][Len(mgr[c])]

\* Manager number g of socket c becomes m.
SetManager(c, g, m) == mgr' = [mgr EXCEPT ![c][g] = m]

\* VideoCall mounts: its effect creates a manager and starts initMedia().
MountCall(c) == mgr' = [mgr EXCEPT ![c] = Append(@, NewManager)]

\* getUserMedia resolves (at the first or at the fallback attempt):
\* this.localStream is assigned, whatever happened to the manager meanwhile.
MediaReady(c, g) ==
    /\ g \in 1..Len(mgr[c])
    /\ mgr[c][g].media = "pending"
    /\ SetManager(c, g, [mgr[c][g] EXCEPT !.media = "done", !.stream = "set"])

\* Both getUserMedia attempts are rejected: no local stream.
MediaFailed(c, g) ==
    /\ g \in 1..Len(mgr[c])
    /\ mgr[c][g].media = "pending"
    /\ SetManager(c, g, [mgr[c][g] EXCEPT !.media = "done"])

\* A pending timer of manager g fires.
TimerFires(c, g, t) ==
    /\ g \in 1..Len(mgr[c])
    /\ t \in mgr[c][g].timers
    /\ SetManager(c, g, OnTimer(mgr[c][g], t))

\* A peer of the current manager emits 'error'.
PeerError(c, userId) ==
    /\ mgr[c] # << >>
    /\ MapHas(Current(c).peers, userId)
    /\ ~Current(c).peers[userId].failed
    /\ SetManager(c, Len(mgr[c]), OnPeerError(Current(c), userId))

\* A peer of the current manager emits 'close'.
PeerClose(c, userId) ==
    /\ mgr[c] # << >>
    /\ MapHas(Current(c).peers, userId)
    /\ SetManager(c, Len(mgr[c]), OnPeerClose(Current(c), userId))

\* The user ids a lone client hears of.
PeerUsers == 2..(1 + MaxPeers)

\* The socket of the lone client.
PeerClient == 1

\* The current manager of `c` handles user-joined for `userId`: a user who
\* disconnected never comes back, its socket id is not handed out again.
HearsUserJoined(c, userId) ==
    /\ mgr[c] # << >>
    /\ userId \notin Current(c).left
    /\ SetManager(c, Len(mgr[c]), OnUserJoined(Current(c), c, userId))

\* The current manager handles user-left for a user not yet gone.
HearsUserLeft(c, userId) ==
    /\ mgr[c] # << >>
    /\ userId \notin Current(c).left
    /\ SetManager(c, Len(mgr[c]), OnUserLeft(Current(c), userId))

\* The current manager handles an offer; the server relays the offer of a
\* user before it announces that the user left.
HearsOffer(c, callerId) ==
    /\ mgr[c] # << >>
    /\ callerId \notin Current(c).left
    /\ SetManager(c, Len(mgr[c]), HandleOffer(Current(c), callerId))

\* The 'signal' listener of a peer of manager g emits the offer (initiator)
\* or the answer (once the remote offer was signalled into it).
PeerSignalsOf(c, g, userId) ==
    /\ g \in 1..Len(mgr[c])
    /\ MapHas(mgr[c][g].peers, userId)
    /\ LET peer == mgr[c][g].peers[userId]
       IN ~peer.sent /\ ~peer.failed /\ (peer.initiator \/ peer.offered)
    /\ SetManager(c, g, [mgr[c][g] EXCEPT !.peers[userId].sent = TRUE])

\* The same for a peer of the current manager.
PeerSignals(c, userId) == PeerSignalsOf(c, Len(mgr[c]), userId)

\* VideoCall.handleEndCall: manager.cleanup()
CleansUp(c) ==
    /\ mgr[c] # << >>
    /\ SetManager(c, Len(mgr[c]), Cleanup(Current(c)))

\* Everything but the managers stays as it is.
OnlyManagers ==
    UNCHANGED <<status, rooms, users, channels, last, out, handled, cvars, voice, home>>

NextPeer ==
    \/ mgr[PeerClient] = << >> /\ MountCall(PeerClient) /\ OnlyManagers
    \/ MediaReady(PeerClient, 1) /\ OnlyManagers
    \/ MediaFailed(PeerClient, 1) /\ OnlyManagers
    \/ \E x \in PeerUsers : HearsUserJoined(PeerClient, x) /\ OnlyManagers
    \/ \E x \in PeerUsers : HearsUserLeft(PeerClient, x) /\ OnlyManagers
    \/ \E x \in PeerUsers : HearsOffer(PeerClient, x) /\ OnlyManagers
    \/ \E t \in [kind : {"create", "retry"}, user : PeerUsers,
                 initiator : BOOLEAN, removed : BOOLEAN] :
          TimerFires(PeerClient, 1, t) /\ OnlyManagers
    \/ \E x \in PeerUsers : PeerSignals(PeerClient, x) /\ OnlyManagers
    \/ \E x \in PeerUsers : PeerError(PeerClient, x) /\ OnlyManagers
    \/ \E x \in PeerUsers : PeerClose(PeerClient, x) /\ OnlyManagers
    \/ CleansUp(PeerClient) /\ OnlyManagers

\* One VideoCall and its manager, against every order in which its socket,
\* its timers, its peers and getUserMedia can call it.
SpecPeer == Init /\ [][NextPeer]_vars

\* The users that join the room of the client of SpecMedia.
MediaUsers == 2..(1 + MaxMediaUsers)

NextMedia ==
    \/ mgr[PeerClient] = << >> /\ MountCall(PeerClient) /\ OnlyManagers
    \/ MediaReady(PeerClient, 1) /\ OnlyManagers
    \/ \E x \in MediaUsers : HearsUserJoined(PeerClient, x) /\ OnlyManagers
    \/ \E x \in MediaUsers : HearsUserLeft(PeerClient, x) /\ OnlyManagers
    \/ \E x \in MediaUsers : TimerFires(PeerClient, 1, CreateTimer(x)) /\ OnlyManagers
    \/ \E x \in MediaUsers : PeerSignals(PeerClient, x) /\ OnlyManagers

\* A member whose camera and microphone do become available and whose peers
\* do not fail, while users join and leave its room: getUserMedia settles,
\* every timer fires and every peer emits its signal, each in its own time.
SpecMedia ==
    /\ Init
    /\ [][NextMedia]_vars
    /\ WF_vars(MediaReady(PeerClient, 1) /\ OnlyManagers)
    /\ \A x \in MediaUsers :
          /\ WF_vars(TimerFires(PeerClient, 1, CreateTimer(x)) /\ OnlyManagers)
          /\ WF_vars(PeerSignals(PeerClient, x) /\ OnlyManagers)

\* ------------------------------------------------- the call, end to end
\* What the listeners of the screen socket c shows do with the managers when
\* they handle event e: HomeScreen's onJoinCall mounts a VideoCall, whose
\* effect creates a manager; VideoCall's listeners call the current manager.
ManagerHandles(c, e) ==
    IF screen[c] = "home"
    THEN IF e.ev \in {"room-created", "room-joined"}
         THEN MountCall(c)
         ELSE UNCHANGED mgr
    ELSE CASE e.ev = "user-joined" ->
                SetManager(c, Len(mgr[c]), OnUserJoined(Current(c), c, e.body.user.id))
           [] e.ev = "room-joined" ->
                SetManager(c, Len(mgr[c]), OnRoomJoined(Current(c), c, e.body.users))
           [] e.ev = "user-left" ->
                SetManager(c, Len(mgr[c]), OnUserLeft(Current(c), e.body.userId))
           [] e.ev = "offer" ->
                SetManager(c, Len(mgr[c]), HandleOffer(Current(c), e.body.caller))
           [] OTHER -> UNCHANGED mgr

\* The client of socket c handles the oldest event emitted to it.
DeliverCall(c) ==
    /\ Deliver(c)
    /\ ManagerHandles(c, Head(inbox[c]))
    /\ UNCHANGED <<voice, home>>

\* VideoCall.handleEndCall: webrtcManager.cleanup(), then onEndCall().
EndCallCall(c) ==
    /\ EndCall(c)
    /\ SetManager(c, Len(mgr[c]), Cleanup(Current(c)))
    /\ UNCHANGED <<voice, home>>

\* A peer's 'signal' listener emits its offer or answer on the socket and the
\* server relays it.
SignalRelayed(c, g, userId) ==
    /\ PeerSignalsOf(c, g, userId)
    /\ Relay(c, IF mgr[c][g].peers[userId].initiator THEN "offer" ELSE "answer",
             [socket |-> userId, room |-> ""], "p1")
    /\ Post
    /\ UNCHANGED <<screen, loading, participants, voice, home>>

\* The manager objects one socket can have: VideoCall mounts per socket.
Mounts == 1..MaxMounts

\* The budget of server events of a call.
CountCall == CountTo(MaxCallEvents)

NextCall ==
    \/ Connect(MaxCallConns) /\ UNCHANGED handled /\ Quiet
    \/ \E c \in SocketIds, name \in OneName, code \in FullCodes :
          /\ Len(mgr[c]) < MaxMounts
          /\ CountCall /\ ClientCreate(c, name, code) /\ UNCHANGED mvars
    \/ \E c \in SocketIds, code \in FullCodes, name \in OneName :
          /\ Len(mgr[c]) < MaxMounts
          /\ CountCall /\ ClientJoin(c, code, name) /\ UNCHANGED mvars
    \/ \E c \in SocketIds : DeliverCall(c)
    \/ \E c \in SocketIds : EndCallCall(c)
    \/ \E c \in SocketIds, g \in Mounts : MediaReady(c, g) /\ OnlyManagers
    \/ \E c \in SocketIds, g \in Mounts, x \in SocketIds :
          TimerFires(c, g, CreateTimer(x)) /\ OnlyManagers
    \/ \E c \in SocketIds, g \in Mounts, x \in SocketIds :
          CountCall /\ SignalRelayed(c, g, x)

\* The shipped clients in calls through the server: rooms, managers, timers,
\* getUserMedia and the offers and answers the peers send each other.
SpecCall == Init /\ [][NextCall]_vars

\* ------------------------------------------------------ voice translation
\* selectedLanguage values of VoiceTranslation; "en" is the initial one.
VoiceLanguages == {"en", "es"}

\* VoiceTranslation.textToSpeech(text, lang): speaks through speechSynthesis
\* when the browser has it and resolves null on both branches.
TextToSpeech(lang) == "null"

\* recognition.onresult with a non-empty transcript while `language` is
\* selected: handleTranslateAndSpeak returns at once for "en", otherwise it
\* awaits translateText.
Recognized(c, language) ==
    /\ status[c] = "open"
    /\ screen[c] = "call"
    /\ voice[c].stage = "idle"
    /\ voice' = [voice EXCEPT ![c] =
                    IF language = "en"
                    THEN [stage |-> "idle", language |-> language]
                    ELSE [stage |-> "translating", language |-> language]]
    /\ UNCHANGED <<status, rooms, users, channels, last, out, handled, cvars, mgr, home>>

\* translateText resolves, with the translation or, when the request failed,
\* with the text itself; textToSpeech is called next.
Translated(c) ==
    /\ voice[c].stage = "translating"
    /\ voice' = [voice EXCEPT ![c].stage = "speaking"]
    /\ UNCHANGED <<status, rooms, users, channels, last, out, handled, cvars, mgr, home>>

\* textToSpeech resolves: translation-audio is emitted if it gave a blob (and
\* the server handles it); setIsTranslating(false) in every case.
Spoken(c) ==
    /\ voice[c].stage = "speaking"
    /\ voice' = [voice EXCEPT ![c].stage = "idle"]
    /\ IF TextToSpeech(voice[c].language) # "null" /\ status[c] = "open"
       THEN /\ TranslationAudio(c, TextToSpeech(voice[c].language), voice[c].language)
            /\ Post
            /\ UNCHANGED <<handled, screen, loading, participants, mgr, home>>
       ELSE UNCHANGED <<status, rooms, users, channels, last, out, handled, cvars, mgr, home>>

CountVoice == CountTo(MaxVoiceEvents)

NextVoice ==
    \/ Connect(MaxConns) /\ UNCHANGED handled /\ Quiet
    \/ \E c \in SocketIds, name \in OneName, code \in FullCodes :
          CountVoice /\ ClientCreate(c, name, code) /\ UNCHANGED mvars
    \/ \E c \in SocketIds, code \in FullCodes, name \in OneName :
          CountVoice /\ ClientJoin(c, code, name) /\ UNCHANGED mvars
    \/ \E c \in SocketIds : Deliver(c) /\ UNCHANGED mvars
    \/ \E c \in SocketIds, language \in VoiceLanguages : Recognized(c, language)
    \/ \E c \in SocketIds : Translated(c)
    \/ \E c \in SocketIds : Spoken(c)

\* Participants of a call speaking with voice translation on: every
\* translation request and every speech synthesis settles.
SpecVoice ==
    /\ Init
    /\ [][NextVoice]_vars
    /\ \A c \in SocketIds : WF_vars(Translated(c)) /\ WF_vars(Spoken(c))

\* ------------------------------------------------------- the home screen
\* Text is a sequence of characters.  The blank runs a user may type around
\* a word.
Blanks == {[i \in 1..n |-> " "] : n \in 0..MaxPad}

\* What a user types into the name field and into the room code field.
NameTexts ==
    {p \o w \o q : p \in Blanks, q \in Blanks,
                   w \in {<< >>, <<"A", "l", "i", "c", "e">>}}

CodeTexts ==
    {p \o w \o q : p \in Blanks, q \in Blanks,
                   w \in {<< >>, <<"a", "a", "a", "a", "a", "a">>,
                          <<"A", "A", "A", "A", "A", "A">>}}

\* String.prototype.trim(): the blanks at both ends are dropped.
RECURSIVE TrimStart(_)
TrimStart(s) == IF s # << >> /\ Head(s) = " " THEN TrimStart(Tail(s)) ELSE s

RECURSIVE TrimEnd(_)
TrimEnd(s) ==
    IF s # << >> /\ s[Len(s)] = " " THEN TrimEnd(SubSeq(s, 1, Len(s) - 1)) ELSE s

Trim(s) == TrimEnd(TrimStart(s))

\* String.prototype.toUpperCase() on the characters that are typed.
UpperOf(ch) ==
    CASE ch = "a" -> "A"
      [] ch = "l" -> "L"
      [] ch = "i" -> "I"
      [] ch = "c" -> "C"
      [] ch = "e" -> "E"
      [] OTHER -> ch

ToUpperCase(s) == [i \in 1..Len(s) |-> UpperOf(s[i])]

\* The text as the string the server receives.
RECURSIVE Str(_)
Str(s) == IF s = << >> THEN "" ELSE Head(s) \o Str(Tail(s))

\* The payload handleCreateRoom emits: { name: name.trim() }
CreateRequest(form) ==
    [ev |-> "create-room", name |-> Trim(form.name), roomCode |-> << >>]

\* The payload handleJoinRoom emits:
\* { name: name.trim(), roomCode: roomCode.trim().toUpperCase() }
JoinRequestUntrimmed(form) ==
    [ev |-> "join-room", name |-> Trim(form.name),
     roomCode |-> ToUpperCase(form.roomCode)]

JoinRequest(form) ==
    [ev |-> "join-room", name |-> Trim(form.name),
     roomCode |-> ToUpperCase(Trim(form.roomCode))]

\* The two buttons: disabled={loading || !connected}
ButtonEnabled(c) == ~loading[c] /\ status[c] = "open"

\* The name field's onChange (the field is disabled while loading).
TypeName(c, text) ==
    /\ screen[c] = "home"
    /\ ~loading[c]
    /\ home' = [home EXCEPT ![c].name = text]
    /\ UNCHANGED <<status, rooms, users, channels, last, out, handled, cvars,
                   mgr, voice>>

\* The room code field's onChange: setRoomCode(e.target.value.toUpperCase())
TypeCode(c, text) ==
    /\ screen[c] = "home"
    /\ ~loading[c]
    /\ home' = [home EXCEPT ![c].roomCode = ToUpperCase(text)]
    /\ UNCHANGED <<status, rooms, users, channels, last, out, handled, cvars,
                   mgr, voice>>

\* An early return of a handler: setError(message) and nothing else.
Rejected(c, message) ==
    /\ home' = [home EXCEPT ![c].error = message]
    /\ UNCHANGED <<status, rooms, users, channels, last, out, handled, cvars,
                   mgr, voice>>

\* The requests the server handles in a run of SpecHome.
CountHome == CountTo(MaxHomeEvents)

\* HomeScreen.handleCreateRoom, from the click to the server's handling of
\* the request it emits.
HandleCreateRoom(c, code) ==
    /\ screen[c] = "home"
    /\ ButtonEnabled(c)
    /\ IF Trim(home[c].name) = << >>
       THEN Rejected(c, "Please enter your name")
       ELSE IF status[c] # "open"
       THEN Rejected(c, "Not connected to server")
       ELSE /\ home' = [home EXCEPT ![c].error = "",
                                    ![c].reqs = Append(@, CreateRequest(home[c]))]
            /\ CountHome
            /\ ClientCreate(c, Str(CreateRequest(home[c]).name), code)
            /\ UNCHANGED <<mgr, voice>>

\* HomeScreen.handleJoinRoom
HandleJoinRoom(c) ==
    /\ screen[c] = "home"
    /\ ButtonEnabled(c)
    /\ IF Trim(home[c].name) = << >>
       THEN Rejected(c, "Please enter your name")
       ELSE IF Trim(home[c].roomCode) = << >>
       THEN Rejected(c, "Please enter room code")
       ELSE IF status[c] # "open"
       THEN Rejected(c, "Not connected to server")
       ELSE /\ home' = [home EXCEPT ![c].error = "",
                                    ![c].reqs = Append(@, JoinRequest(home[c]))]
            /\ CountHome
            /\ ClientJoin(c, Str(JoinRequest(home[c]).roomCode),
                          Str(JoinRequest(home[c]).name))
            /\ UNCHANGED <<mgr, voice>>

\* What HomeScreen's listeners do with the form when they handle event e:
\* the error listener shows the server's message; onJoinCall unmounts
\* HomeScreen, and the next HomeScreen starts with an empty form.
FormHandles(c, e) ==
    IF screen[c] # "home"
    THEN UNCHANGED home
    ELSE IF e.ev = "error"
    THEN home' = [home EXCEPT ![c].error = e.body.message]
    ELSE IF e.ev \in {"room-created", "room-joined"}
    THEN home' = [home EXCEPT ![c] = [NewForm EXCEPT !.reqs = home[c].reqs]]
    ELSE UNCHANGED home

\* The client of socket c handles the oldest event emitted to it.
DeliverHome(c) ==
    /\ Deliver(c)
    /\ ManagerHandles(c, Head(inbox[c]))
    /\ FormHandles(c, Head(inbox[c]))
    /\ UNCHANGED voice

\* The socket of the one browser tab of SpecHome.
HomeClient == 1

NextHome ==
    \/ Connect(HomeClient) /\ UNCHANGED handled /\ Quiet
    \/ \E text \in NameTexts : TypeName(HomeClient, text)
    \/ \E text \in CodeTexts : TypeCode(HomeClient, text)
    \/ \E code \in FullCodes : HandleCreateRoom(HomeClient, code)
    \/ HandleJoinRoom(HomeClient)
    \/ DeliverHome(HomeClient)
    \/ EndCallCall(HomeClient)
    \/ CountHome /\ ClientDisconnect(HomeClient) /\ UNCHANGED mvars

\* A user filling in the home screen and pressing its buttons, against the
\* server, until the tab is closed.
SpecHome == Init /\ [][NextHome]_vars

\* ------------------------------------------------------------------ claims
\* The ids of the members of the live room `k`.
Members(k) == UserIds(rooms[k].users)

\* The error emission a failed join-room sends.
ErrorTo(c, message) == EmitSelf(c, "error", [message |-> message])

\* C1: whatever create-room, join-room and disconnect events the connections
\* send, and in whatever order the server handles them, no live room ever has
\* more than MAX_ROOM_SIZE members.
C1_RoomNeverOverCapacity ==
    \A k \in DOMAIN rooms : UsersSize(rooms[k].users) <= MAX_ROOM_SIZE

\* A fourth member took the last free slot of a room and the join-room of a
\* further connection, handled after it, was turned away.
C1_Witness ==
    \E k \in DOMAIN rooms :
        /\ Cardinality(Members(k)) = MAX_ROOM_SIZE
        /\ last.ev = "join-room"
        /\ last.conn \notin Members(k)
        /\ out = << ErrorTo(last.conn, "Room is full") >>

\* C2: the Room Store and the Connection Registry agree on membership: every
\* registry entry names a live room that has the connection as a member, and
\* every member of a live room has a registry entry naming that room.
C2_StoresAgree ==
    /\ \A c \in DOMAIN users :
          /\ MapHas(rooms, users[c].roomCode)
          /\ c \in Members(users[c].roomCode)
    /\ \A k \in DOMAIN rooms : \A c \in Members(k) :
          /\ MapHas(users, c)
          /\ users[c].roomCode = k

\* C3: a connection is a member of at most one live room.
C3_AtMostOneRoom ==
    \A c \in SocketIds : Cardinality({k \in DOMAIN rooms : c \in Members(k)}) <= 1

\* C4: no live room is without members; the disconnect that removes the last
\* member of a room deletes the room in the same handler run; and a join-room
\* for a code that names no live room is answered 'Room not found'.
C4_EmptyRoomDeleted ==
    [][ /\ \A k \in DOMAIN rooms' : UsersSize(rooms'[k].users) >= 1
        /\ \A c \in SocketIds :
              ( /\ last'.ev = "disconnect" /\ last'.conn = c
                /\ MapHas(users, c)
                /\ MapHas(rooms, users[c].roomCode)
                /\ Members(users[c].roomCode) = {c}
                /\ Disconnect(c) )
              => ~MapHas(rooms', users[c].roomCode)
        /\ \A c \in SocketIds, k \in Codes, n \in Names :
              ( /\ last'.ev = "join-room" /\ last'.conn = c
                /\ ~MapHas(rooms, k)
                /\ JoinRoom(c, k, n) )
              => out' = << ErrorTo(c, "Room not found") >>
      ]_vars

\* The latest handler run was the disconnect of the last member of a room (its
\* user-left carries the empty member list) and the room is gone.
C4_Witness ==
    /\ last.ev = "disconnect"
    /\ Len(out) = 1
    /\ out[1].ev = "user-left"
    /\ out[1].body.users = << >>
    /\ \A k \in DOMAIN rooms : last.conn \notin Members(k)
    /\ \E k \in Codes : ~MapHas(rooms, k)

\* C5: create-room gives the new room a code that no live room has, and every
\* room that was live stays live and unchanged.
C5_CreateKeepsLiveRooms ==
    [][ \A c \in SocketIds, n \in Names, k \in Codes :
          (last'.ev = "create-room" /\ last'.conn = c /\ CreateRoom(c, n, k))
          => /\ ~MapHas(rooms, k)
             /\ \A j \in DOMAIN rooms : MapHas(rooms', j) /\ rooms'[j] = rooms[j]
      ]_vars

\* C6: a join-room whose code names no live room emits exactly one event, the
\* error 'Room not found' to the requester alone, creates no room, and leaves
\* every room, every registry entry and every channel as it was.
C6_JoinUnknownCode ==
    [][ \A c \in SocketIds, k \in Codes, n \in Names :
          ( /\ last'.ev = "join-room" /\ last'.conn = c
            /\ ~MapHas(rooms, k)
            /\ JoinRoom(c, k, n) )
          => /\ out' = << ErrorTo(c, "Room not found") >>
             /\ DOMAIN rooms' = DOMAIN rooms
             /\ rooms' = rooms
             /\ users' = users
             /\ channels' = channels
      ]_vars

\* A join-room was answered 'Room not found' while another room was live.
C6_Witness ==
    /\ last.ev = "join-room"
    /\ out = << ErrorTo(last.conn, "Room not found") >>
    /\ DOMAIN rooms # {}
    /\ DOMAIN rooms # Codes

\* C7: a join-room on a room that holds MAX_ROOM_SIZE members emits exactly
\* one event, the error 'Room is full' to the requester alone (nothing to the
\* room), adds the requester neither to the room nor to the registry, and the
\* room keeps its MAX_ROOM_SIZE members.
C7_JoinFullRoom ==
    [][ \A c \in SocketIds, k \in Codes, n \in Names :
          ( /\ last'.ev = "join-room" /\ last'.conn = c
            /\ MapHas(rooms, k)
            /\ UsersSize(rooms[k].users) = MAX_ROOM_SIZE
            /\ JoinRoom(c, k, n) )
          => /\ out' = << ErrorTo(c, "Room is full") >>
             /\ rooms' = rooms
             /\ UsersSize(rooms'[k].users) = MAX_ROOM_SIZE
             /\ users' = users
             /\ channels' = channels
      ]_vars

\* A connection that has never been in any room was turned away from a room
\* of MAX_ROOM_SIZE members, all of them subscribed to the room's channel.
C7_Witness ==
    \E k \in DOMAIN rooms :
        /\ UsersSize(rooms[k].users) = MAX_ROOM_SIZE
        /\ channels[k] = Members(k)
        /\ last.ev = "join-room"
        /\ ~MapHas(users, last.conn)
        /\ last.conn \notin channels[k]
        /\ out = << ErrorTo(last.conn, "Room is full") >>

\* C8: a run of the disconnect handler for a connection whose disconnect was
\* handled before changes neither the Room Store nor the Registry and emits
\* nothing, whatever was handled in between.
C8_SecondDisconnectNoOp ==
    [][ \A c \in SocketIds :
          ( /\ last'.ev = "disconnect" /\ last'.conn = c
            /\ status[c] = "closed"
            /\ Disconnect(c) )
          => /\ rooms' = rooms
             /\ users' = users
             /\ channels' = channels
             /\ out' = << >>
      ]_vars

\* The disconnect handler ran for a connection that was already closed, while
\* a room with members subscribed to its channel was live.
C8_Witness ==
    /\ last.ev = "disconnect"
    /\ ~last.open
    /\ \E k \in DOMAIN rooms : channels[k] # {}

\* The members of the live room `k` whose isHost flag is true.
Hosts(k) == {i \in 1..Len(rooms[k].users) : rooms[k].users[i].isHost}

\* C9 as stated: every live room has exactly one member whose isHost flag is
\* true.
C9_ExactlyOneHost ==
    \A k \in DOMAIN rooms : Cardinality(Hosts(k)) = 1

\* C9 as amended: every live room has at most one member whose isHost flag is
\* true, and that member is the connection that created the room.
C9_AtMostOneHost ==
    \A k \in DOMAIN rooms :
        /\ Cardinality(Hosts(k)) <= 1
        /\ \A i \in Hosts(k) : rooms[k].users[i].id = rooms[k].host

\* A live room with two members, neither of them flagged as host.
C9_Witness ==
    \E k \in DOMAIN rooms :
        /\ Cardinality(Members(k)) >= 2
        /\ Hosts(k) = {}

\* The record of member `c` in the member list `us`.
UserOf(us, c) == us[CHOOSE i \in 1..Len(us) : us[i].id = c]

\* C10: when the host of a room disconnects while other members remain, the
\* room stays live with exactly the remaining members, their records
\* unchanged; and no handler run turns the isHost flag of a member of a room
\* from false to true.
C10_NoHostMigration ==
    [][ /\ \A c \in SocketIds :
              ( /\ last'.ev = "disconnect" /\ last'.conn = c
                /\ MapHas(users, c)
                /\ MapHas(rooms, users[c].roomCode)
                /\ UsersHas(rooms[users[c].roomCode].users, c)
                /\ UserOf(rooms[users[c].roomCode].users, c).isHost
                /\ Members(users[c].roomCode) # {c}
                /\ Disconnect(c) )
              => LET k == users[c].roomCode
                 IN /\ MapHas(rooms', k)
                    /\ rooms'[k].users = UsersDelete(rooms[k].users, c)
                    /\ \A i \in 1..Len(rooms'[k].users) : ~rooms'[k].users[i].isHost
        /\ \A k \in DOMAIN rooms :
              (MapHas(rooms', k) /\ last'.ev # "create-room")
              => \A m \in UserIds(rooms'[k].users) :
                    UserOf(rooms'[k].users, m).isHost
                    => /\ UsersHas(rooms[k].users, m)
                       /\ UserOf(rooms[k].users, m).isHost
      ]_vars

\* The host of a room has just disconnected; the room is live without it, and
\* none of the members that remain is flagged as host.
C10_Witness ==
    /\ last.ev = "disconnect"
    /\ last.open
    /\ \E k \in DOMAIN rooms :
          /\ rooms[k].host = last.conn
          /\ last.conn \notin Members(k)
          /\ Members(k) # {}
          /\ Hosts(k) = {}
          /\ Len(out) = 1
          /\ out[1].ev = "user-left"
          /\ out[1].to = Members(k)

\* C11: as long as a connection stays a member of a room, the name and the
\* isHost flag of its participant record in that room stay what they were:
\* no handler run changes the record of a connection that is a member of the
\* room before and after the run (create-room steps, which store a new room,
\* are left aside).
C11_RecordNeverMutated ==
    [][ last'.ev # "create-room"
        => \A k \in DOMAIN rooms :
              MapHas(rooms', k)
              => \A m \in UserIds(rooms[k].users) \cap UserIds(rooms'[k].users) :
                    UserOf(rooms'[k].users, m) = UserOf(rooms[k].users, m)
      ]_vars

\* C12: once the user has ended the call, the server's member sets no longer
\* hold the connection.
C12_EndCallLeavesRoom ==
    [][ \A c \in SocketIds :
          (screen[c] = "call" /\ screen'[c] = "home" /\ EndCall(c))
          => \A k \in DOMAIN rooms' : c \notin UserIds(rooms'[k].users)
      ]_vars

\* C13: a connected client on the call screen that has handled every event
\* emitted to it holds, as participants, the member list of its room.
C13_ViewsAgree ==
    \A c \in SocketIds :
        ( /\ status[c] = "open"
          /\ screen[c] = "call"
          /\ inbox[c] = << >>
          /\ MapHas(users, c)
          /\ MapHas(rooms, users[c].roomCode) )
        => participants[c] = rooms[users[c].roomCode].users

\* C14: a join-room of connection J that succeeds on room R emits exactly two
\* events: user-joined{user = J, users} to every other member of R and to no
\* connection that is not a member of R, and room-joined{roomCode = R,
\* isHost = false, users} to J; users is R's member list after the insertion
\* and holds J and every earlier member.
C14_JoinEmissions ==
    [][ \A j \in SocketIds, k \in Codes, n \in Names :
          ( /\ last'.ev = "join-room" /\ last'.conn = j
            /\ MapHas(rooms, k)
            /\ UsersSize(rooms[k].users) < MAX_ROOM_SIZE
            /\ JoinRoom(j, k, n) )
          => LET list == rooms'[k].users
             IN /\ UserIds(list) = UserIds(rooms[k].users) \cup {j}
                /\ out' = << [ev |-> "user-joined",
                              to |-> UserIds(list) \ {j},
                              body |-> [user |-> [id |-> j, name |-> n],
                                        users |-> list]],
                             [ev |-> "room-joined",
                              to |-> {j},
                              body |-> [roomCode |-> k, users |-> list,
                                        isHost |-> FALSE]] >>
      ]_vars

\* C15: create-room of connection C stores, under the code it is given, a room
\* whose only member is C with isHost = true, binds C to that code in the
\* registry, and emits exactly one event, room-created{roomCode, isHost =
\* true, users = [C]}, to C alone.
C15_CreateEffect ==
    [][ \A c \in SocketIds, n \in Names, k \in Codes :
          (last'.ev = "create-room" /\ last'.conn = c /\ CreateRoom(c, n, k))
          => LET list == << [id |-> c, name |-> n, isHost |-> TRUE] >>
             IN /\ MapHas(rooms', k)
                /\ rooms'[k].users = list
                /\ rooms'[k].host = c
                /\ users'[c] = [roomCode |-> k, name |-> n]
                /\ out' = << [ev |-> "room-created",
                              to |-> {c},
                              body |-> [roomCode |-> k, isHost |-> TRUE,
                                        users |-> list]] >>
      ]_vars

\* A connection has just created a room while another connection sits,
\* connected, in another live room.
C15_Witness ==
    /\ last.ev = "create-room"
    /\ Len(out) = 1
    /\ out[1].ev = "room-created"
    /\ out[1].to = {last.conn}
    /\ \E k \in DOMAIN rooms, d \in SocketIds :
          /\ k # out[1].body.roomCode
          /\ d # last.conn
          /\ status[d] = "open"
          /\ d \in Members(k)

\* C16: create-room with an empty name is rejected: the requester receives an
\* error, no room is created and no registry entry is added; join-room with
\* an empty name is rejected likewise, before any state is touched.
C16_EmptyNameRejected ==
    [][ \A c \in SocketIds, k \in Codes :
          ( \/ last'.ev = "create-room" /\ last'.conn = c /\ CreateRoom(c, "", k)
            \/ last'.ev = "join-room" /\ last'.conn = c /\ JoinRoom(c, k, "") )
          => /\ rooms' = rooms
             /\ users' = users
             /\ channels' = channels
             /\ \E i \in 1..Len(out') : out'[i].ev = "error" /\ out'[i].to = {c}
      ]_vars

\* C17: an offer, answer or ice-candidate event sent by S with target T is
\* forwarded only to the connection whose id is T and to no other connection,
\* with the payload unchanged and tagged with S's id as caller / answerer /
\* sender respectively.
C17_RelayOnlyToTarget ==
    [][ \A s \in SocketIds, ev \in RelayEvents, t \in Targets, p \in Payloads :
          (last'.ev = ev /\ last'.conn = s /\ last'.target = t /\ Relay(s, ev, t, p))
          => /\ Len(out') = 1
             /\ out'[1].ev = ev
             /\ out'[1].to \subseteq {d \in SocketIds : d = t.socket}
             /\ (t.socket \in SocketIds \ {s} /\ status[t.socket] = "open"
                    => out'[1].to = {t.socket})
             /\ ev = "offer" => out'[1].body = [offer |-> p, caller |-> s]
             /\ ev = "answer" => out'[1].body = [answer |-> p, answerer |-> s]
             /\ ev = "ice-candidate"
                    => out'[1].body = [candidate |-> p, sender |-> s]
      ]_vars

\* C18: handling offer, answer or ice-candidate leaves the Room Store and the
\* Registry unchanged for every target value, and when the target is not a
\* currently connected connection nothing is delivered to anyone and no
\* error event is sent to the sender.
C18_RelayFrame ==
    [][ \A s \in SocketIds, ev \in RelayEvents, t \in Targets, p \in Payloads :
          (last'.ev = ev /\ last'.conn = s /\ last'.target = t /\ Relay(s, ev, t, p))
          => /\ rooms' = rooms
             /\ users' = users
             /\ ~(t.socket \in SocketIds /\ status[t.socket] = "open")
                    => \A i \in 1..Len(out') :
                          out'[i].to = {} /\ out'[i].ev # "error"
      ]_vars

\* C19: translation-audio from S is delivered, tagged with sender = S, to
\* every other member of the room S is registered in and to no one else;
\* when S has no registry entry nothing is delivered and no state changes.
C19_TranslationToRoomMembers ==
    [][ \A s \in SocketIds, a \in Payloads, l \in Languages :
          (last'.ev = "translation-audio" /\ last'.conn = s
              /\ TranslationAudio(s, a, l))
          => /\ rooms' = rooms
             /\ users' = users
             /\ IF MapHas(users, s)
                THEN /\ Len(out') = 1
                     /\ out'[1].ev = "translation-audio"
                     /\ out'[1].body = [audio |-> a, language |-> l, sender |-> s]
                     /\ out'[1].to =
                           IF MapHas(rooms, users[s].roomCode)
                           THEN Members(users[s].roomCode) \ {s}
                           ELSE {}
                ELSE \A i \in 1..Len(out') : out'[i].to = {}
      ]_vars

\* C20: disconnect of a member C of room R removes C from R and from the
\* registry and, if R still has members, sends user-left{userId = C, users}
\* to exactly the remaining members of R, users being R's member list after
\* the removal; the registry entry of C is removed in every case.
C20_DisconnectEffect ==
    [][ \A c \in SocketIds, k \in Codes :
          (last'.ev = "disconnect" /\ last'.conn = c /\ status[c] = "open"
              /\ MapHas(rooms, k) /\ c \in UserIds(rooms[k].users)
              /\ Disconnect(c))
          => LET left == UsersDelete(rooms[k].users, c)
             IN /\ ~MapHas(users', c)
                /\ MapHas(rooms', k) => rooms'[k].users = left
                /\ Len(left) = 0 => ~MapHas(rooms', k)
                /\ Len(left) > 0
                      => out' = << [ev |-> "user-left",
                                    to |-> UserIds(left),
                                    body |-> [userId |-> c, users |-> left]] >>
      ]_vars

\* The members of room k in a Room Store, none when the store has no room k.
MembersIn(rs, k) == IF MapHas(rs, k) THEN UserIds(rs[k].users) ELSE {}

\* C21: a create-room, join-room (successful or failing) or disconnect handled
\* for connection C changes at most one room - the one C creates, joins or is
\* registered in - and the registry entry of C only; every other room and the
\* registry entry of every other connection are unchanged, and no connection
\* outside the affected room receives an event.
C21_OneRoomFrame ==
    [][ \A c \in SocketIds, k \in Codes, n \in Names :
          ( /\ last'.conn = c
            /\ \/ last'.ev = "create-room" /\ CreateRoom(c, n, k)
               \/ last'.ev = "join-room" /\ JoinRoom(c, k, n)
               \/ /\ last'.ev = "disconnect"
                  /\ MapHas(users, c) => users[c].roomCode = k
                  /\ Disconnect(c) )
          => /\ \A k2 \in Codes \ {k} :
                   /\ MapHas(rooms', k2) = MapHas(rooms, k2)
                   /\ MapHas(rooms, k2) => rooms'[k2] = rooms[k2]
             /\ \A d \in SocketIds \ {c} :
                   /\ MapHas(users', d) = MapHas(users, d)
                   /\ MapHas(users, d) => users'[d] = users[d]
             /\ \A i \in 1..Len(out') :
                   out'[i].to \subseteq
                       {c} \cup MembersIn(rooms, k) \cup MembersIn(rooms', k)
      ]_vars

\* C22: when a connection whose registry entry names a room code that is no
\* longer in the Room Store disconnects, the room-removal step is a no-op: no
\* room is created or changed, no user-left is emitted, and the registry entry
\* of the connection is still removed.
C22_DisconnectMissingRoom ==
    [][ \A c \in SocketIds :
          ( /\ last'.ev = "disconnect"
            /\ last'.conn = c
            /\ MapHas(users, c)
            /\ ~MapHas(rooms, users[c].roomCode)
            /\ Disconnect(c) )
          => /\ rooms' = rooms
             /\ out' = << >>
             /\ ~MapHas(users', c)
      ]_vars

\* A connected socket whose registry entry named a room already deleted has
\* just disconnected.
C22_Witness ==
    /\ last.ev = "disconnect"
    /\ last.open
    /\ last.room \in Codes
    /\ ~MapHas(rooms, last.room)
    /\ out = << >>
    /\ ~MapHas(users, last.conn)

\* C24: for every room, the set of connections subscribed to the room's
\* transport channel equals the key set of that room's members map in every
\* reachable state.
C24_ChannelIsMembers ==
    \A k \in DOMAIN rooms : channels[k] = UserIds(rooms[k].users)

\* C27: once a client has handled user-left for user X, its peers map holds no
\* peer connection for X from then on, whatever the interleaving with the
\* creation timers, the retry timer and the offers of X.
C27_NoPeerAfterUserLeft ==
    \A c \in SocketIds : \A g \in 1..Len(mgr[c]) :
        \A x \in mgr[c][g].left : ~MapHas(mgr[c][g].peers, x)

\* C29: when the retry timer started by a peer error for user X fires, a fresh
\* peer connection for X with the same initiator role replaces the failed one
\* if X was not removed in the meantime, and no peer connection is created if
\* X was removed (user-left, close or cleanup) before the timer fired.
C29_RetryRecovers ==
    [][ \A c \in SocketIds : \A g \in 1..Len(mgr[c]) : \A t \in mgr[c][g].timers :
          (t.kind = "retry" /\ TimerFires(c, g, t))
          => IF t.removed
             THEN mgr'[c][g].peers = mgr[c][g].peers
             ELSE /\ MapHas(mgr'[c][g].peers, t.user)
                  /\ mgr'[c][g].peers[t.user] = NewPeer(t.initiator)
      ]_vars

\* C30: createPeerConnection for a user id already in the peers map creates
\* nothing and leaves the existing entry and its initiator role unchanged, and
\* createPeerConnection while no local stream is available adds no entry; the
\* map never holds anything for the other users that it did not hold before.
C30_OnePeerPerUser ==
    /\ [][ \A c \in SocketIds : \A g \in 1..Len(mgr[c]) : \A t \in mgr[c][g].timers :
          (t.kind = "create" /\ TimerFires(c, g, t))
          => LET old == mgr[c][g].peers
                 new == mgr'[c][g].peers
             IN /\ MapHas(old, t.user) => new = old
                /\ mgr[c][g].stream = "null" => new = old
                /\ \A y \in DOMAIN new \ {t.user} : MapHas(old, y) /\ new[y] = old[y]
      ]_vars
    /\ [][ \A c \in SocketIds, x \in PeerUsers :
             (mgr[c] # << >> /\ HearsOffer(c, x))
             => LET old == Current(c).peers
                    new == mgr'[c][Len(mgr[c])].peers
                IN /\ MapHas(old, x) => new = [old EXCEPT ![x].offered = TRUE]
                   /\ Current(c).stream = "null" /\ ~MapHas(old, x) => new = old
                   /\ \A y \in DOMAIN new \ {x} : MapHas(old, y) /\ new[y] = old[y]
         ]_vars

\* createPeerConnection has returned early for both reasons, and the peer
\* connection an offer created as non-initiator is still in the map, its
\* answer sent.
C30_Witness ==
    \E c \in SocketIds : \E g \in 1..Len(mgr[c]) : \E x \in DOMAIN mgr[c][g].peers :
        /\ mgr[c][g].log =
              {"Peer connection already exists", "No local stream available"}
        /\ ~mgr[c][g].peers[x].initiator
        /\ mgr[c][g].peers[x].sent

\* C28: after an existing member handles user-joined for a new user X who
\* stays in the room, that member eventually holds a peer connection for X
\* and has sent X an offer, whatever the relative order of getUserMedia
\* completing and the creation timer firing.
C28_JoinedUserGetsOffer ==
    \A x \in MediaUsers :
        (mgr[PeerClient] # << >> /\ CreateTimer(x) \in Current(PeerClient).timers)
        ~> /\ mgr[PeerClient] # << >>
           /\ \/ x \in Current(PeerClient).left
              \/ /\ MapHas(Current(PeerClient).peers, x)
                 /\ Current(PeerClient).peers[x].initiator
                 /\ Current(PeerClient).peers[x].sent

\* C23: when a speaker with a non-English target language produces a
\* recognized utterance whose translation succeeds, a translation-audio event
\* of that speaker is eventually emitted to the server and sent on to the
\* other participants of the room.
C23_TranslationReachesRoom ==
    \A c \in SocketIds :
        (voice[c].stage = "translating")
        ~> (last.ev = "translation-audio" /\ last.conn = c)

\* The emissions of a handler run that go to connection c.
SentTo(c, o) == {i \in 1..Len(o) : c \in o[i].to}

Initiates(c, g, d) ==
    /\ g \in 1..Len(mgr[c])
    /\ MapHas(mgr[c][g].peers, d)
    /\ mgr[c][g].peers[d].initiator

\* C26: for every pair of participants at most one side creates its peer
\* connection as initiator, so an offer from X is never handled by a client
\* whose existing peer connection for X was created with initiator = true.
C26_OneInitiator ==
    /\ [][ \A c \in SocketIds :
             ( /\ inbox[c] # << >>
               /\ screen[c] = "call"
               /\ Head(inbox[c]).ev = "offer"
               /\ DeliverCall(c) )
             => ~Initiates(c, Len(mgr[c]), Head(inbox[c]).body.caller)
         ]_vars
    /\ [](\A c, d \in SocketIds : \A g, h \in Mounts :
             ~(Initiates(c, g, d) /\ Initiates(d, h, c)))

\* Manager g of socket c has been cleaned up: its VideoCall ended the call
\* (the screen is back at home) or a later VideoCall has been mounted.
CleanedUp(c, g) ==
    /\ g \in 1..Len(mgr[c])
    /\ (g < Len(mgr[c]) \/ screen[c] = "home")

\* C31: after WebRTCManager.cleanup() the peers map of that manager is empty
\* and its local stream is null, and both stay so whatever timer or call
\* reaches the manager later.
C31_CleanupIsFinal ==
    \A c \in SocketIds : \A g \in Mounts :
        CleanedUp(c, g) =>
            /\ mgr[c][g].peers = << >>
            /\ mgr[c][g].stream = "null"

\* The text has a character that is not a blank.
NotBlank(s) == \E i \in 1..Len(s) : s[i] # " "

\* The text neither starts nor ends with a blank and has no lower-case letter.
TrimmedUpper(s) ==
    /\ s # << >> => s[1] # " " /\ s[Len(s)] # " "
    /\ \A i \in 1..Len(s) : s[i] \notin {"a", "l", "i", "c", "e"}

\* A button of socket c's home screen is pressed.
Pressed(c) == HandleJoinRoom(c) \/ \E code \in FullCodes : HandleCreateRoom(c, code)

\* C32: every create-room and join-room the home screen emits carries a name
\* that is not blank, every join-room a room code that is not blank, trimmed
\* and upper-case; a request is emitted only on a connected socket; and a
\* press that emits no request leaves an error message and reaches neither
\* the server nor any client.
C32_HomeValidates ==
    /\ [](\A c \in SocketIds : \A i \in 1..Len(home[c].reqs) :
             LET r == home[c].reqs[i]
             IN /\ NotBlank(r.name)
                /\ r.ev = "join-room" => NotBlank(r.roomCode) /\ TrimmedUpper(r.roomCode))
    /\ [][ \A c \in SocketIds :
              home'[c].reqs # home[c].reqs =>
                  /\ status[c] = "open"
                  /\ last'.conn = c
                  /\ last'.ev = home'[c].reqs[Len(home'[c].reqs)].ev ]_vars
    /\ [][ \A c \in SocketIds :
              (Pressed(c) /\ home'[c].reqs = home[c].reqs) =>
                  /\ home'[c].error # ""
                  /\ UNCHANGED <<last, out, inbox, handled, loading>> ]_vars

\* The server found no room for a join-room whose name was typed with blanks
\* around it and went out trimmed; the user then blanked the room code and
\* pressed Join again, was told to enter a code, and nothing more went out.
C32_Witness ==
    LET form == home[HomeClient]
    IN /\ Len(form.reqs) = 1
       /\ form.reqs[1].ev = "join-room"
       /\ form.name # Trim(form.name)
       /\ form.reqs[1].name = Trim(form.name)
       /\ form.roomCode # << >> /\ ~NotBlank(form.roomCode)
       /\ form.error = "Please enter room code"
       /\ last.ev = "join-room" /\ handled = 1
====
